---------------------------- MODULE Spec2Model ----------------------------
(***************************************************************************)
(* Model of the dplanner investment planner (InvestmentPlanner.jsx): the   *)
(* calculators (fvLumpSum, fvSIP, the schedules, xirr, requiredSIP) and    *)
(* the component state that feeds them.                                    *)
(*                                                                         *)
(* JavaScript numbers are modelled as decimal floating point values with   *)
(* 16 significant digits (a double keeps 15.95), plus NaN and the two      *)
(* infinities.  Every arithmetic operation rounds its exact result to 16   *)
(* digits, as an IEEE double rounds to 53 bits.  The sign of zero is not   *)
(* modelled.                                                               *)
(***************************************************************************)
EXTENDS Integers, Sequences, FiniteSets, TLC

AbsInt(i) == IF i < 0 THEN -i ELSE i

SgnInt(i) == IF i < 0 THEN -1 ELSE IF i > 0 THEN 1 ELSE 0

\* ---- mantissas -------------------------------------------------------------
\* A 16-digit mantissa does not fit the 32-bit integers of the checker: it is
\* held as its four base-10000 limbs, least significant first.  Intermediate
\* results are longer limb sequences.
Pow10s == <<1, 10, 100, 1000, 10000>>

\* The limbs of the number whose columns are cols (any integers), from column i
\* on with carry c; the last entry takes what is left (negative when the number
\* is).
RECURSIVE Carry(_, _, _, _)
Carry(cols, i, c, acc) ==
  IF i > Len(cols) THEN Append(acc, c)
  ELSE Carry(cols, i + 1, (cols[i] + c) \div 10000,
             Append(acc, (cols[i] + c) % 10000))

\* The index of the highest non-zero limb of w at or below i, 0 when there is none.
RECURSIVE TopLimb(_, _)
TopLimb(w, i) == IF i = 0 THEN 0 ELSE IF w[i] # 0 THEN i ELSE TopLimb(w, i - 1)

\* m + 1 for a mantissa m that is not all nines.
IncMant(m) ==
  IF m[1] < 9999 THEN <<m[1] + 1, m[2], m[3], m[4]>>
  ELSE IF m[2] < 9999 THEN <<0, m[2] + 1, m[3], m[4]>>
  ELSE IF m[3] < 9999 THEN <<0, 0, m[3] + 1, m[4]>>
  ELSE <<0, 0, 0, m[4] + 1>>

\* m1 >= m2 for mantissas.
MantGe(m1, m2) ==
  IF m1[4] # m2[4] THEN m1[4] > m2[4]
  ELSE IF m1[3] # m2[3] THEN m1[3] > m2[3]
  ELSE IF m1[2] # m2[2] THEN m1[2] > m2[2]
  ELSE m1[1] >= m2[1]

\* ---- values ------------------------------------------------------------------
\* A number is [k, s, m, e]: kind "fin", "inf" or "nan", sign s, and for a finite
\* non-zero number the 16-digit mantissa m and the exponent e: s * m * 10^e.
NaN == [k |-> "nan", s |-> 0, m |-> <<>>, e |-> 0]

PosInf == [k |-> "inf", s |-> 1, m |-> <<>>, e |-> 0]

NegInf == [k |-> "inf", s |-> -1, m |-> <<>>, e |-> 0]

InfOf(s) == IF s < 0 THEN NegInf ELSE PosInf

Zero == [k |-> "fin", s |-> 0, m |-> <<>>, e |-> 0]

\* The finite number s * m * 10^e, or what a double makes of it when its decimal
\* exponent leaves the range of a double (1.8e308 .. 5e-324).
Ranged(s, m, e) ==
  IF e + 15 > 308 THEN InfOf(s)
  ELSE IF e + 15 < -324 THEN Zero
  ELSE [k |-> "fin", s |-> s, m |-> m, e |-> e]

\* s * m * 10^e with the mantissa m rounded half up by the digit rd that follows it.
NormR(s, m, e, rd) ==
  IF rd < 5 THEN Ranged(s, m, e)
  ELSE IF m = <<9999, 9999, 9999, 9999>> THEN Ranged(s, <<0, 0, 0, 1000>>, e + 1)
  ELSE Ranged(s, IncMant(m), e)

\* The mantissa is the 16 digits of wp from digit 4 q + r on (p = 10^r, pc =
\* 10^(4 - r)).
NormQ(s, wp, e, q, p, pc, rd) ==
  NormR(s,
        <<wp[q + 1] \div p + (wp[q + 2] % p) * pc,
          wp[q + 2] \div p + (wp[q + 3] % p) * pc,
          wp[q + 3] \div p + (wp[q + 4] % p) * pc,
          wp[q + 4] \div p + (wp[q + 5] % p) * pc>>,
        e, rd)

\* wp is w with five zero limbs below and one above; its leading 16 digits start
\* at digit d.
NormD(s, wp, e, d) ==
  NormQ(s, wp, e + d - 20, d \div 4, Pow10s[(d % 4) + 1], Pow10s[5 - (d % 4)],
        (wp[(d - 1) \div 4 + 1] \div Pow10s[((d - 1) % 4) + 1]) % 10)

NormT(s, w, e, t) ==
  IF t = 0 \/ s = 0 THEN Zero
  ELSE NormD(s, <<0, 0, 0, 0, 0>> \o w \o <<0>>, e,
             4 * t + (IF w[t] >= 1000 THEN 4 ELSE IF w[t] >= 100 THEN 3
                      ELSE IF w[t] >= 10 THEN 2 ELSE 1))

\* The number nearest to s * w * 10^e (w a limb sequence, s the sign): the exact
\* value rounded half up to 16 digits.
Norm(s, w, e) == NormT(s, w, e, TopLimb(w, Len(w)))

\* The number literal i * 10^e, and the number of an integer.
Dec(i, e) ==
  Norm(SgnInt(i),
       <<AbsInt(i) % 10000, (AbsInt(i) \div 10000) % 10000, AbsInt(i) \div 100000000>>,
       e)

FromInt(i) == Dec(i, 0)

One == FromInt(1)

IsNaN(a) == a.k = "nan"

IsInf(a) == a.k = "inf"

\* isFinite(v)
IsFinite(a) == a.k = "fin"

IsZero(a) == a.k = "fin" /\ a.s = 0

Sign(a) == a.s

Neg(a) == [a EXCEPT !.s = -a.s]

\* Math.abs
Abs(a) == [a EXCEPT !.s = AbsInt(a.s)]

\* ---- comparisons (every comparison with NaN is false) --------------------
\* |a| < |b| for finite non-zero a and b.
LtMag(a, b) == a.e < b.e \/ (a.e = b.e /\ ~MantGe(a.m, b.m))

LtFin(a, b) ==
  IF a.s # b.s THEN a.s < b.s
  ELSE IF a.s = 0 THEN FALSE
  ELSE IF a.s > 0 THEN LtMag(a, b) ELSE LtMag(b, a)

Lt(a, b) ==
  IF IsNaN(a) \/ IsNaN(b) THEN FALSE
  ELSE IF IsInf(a) THEN a.s < 0 /\ ~(IsInf(b) /\ b.s < 0)
  ELSE IF IsInf(b) THEN b.s > 0
  ELSE LtFin(a, b)

\* a === b
Eq(a, b) == ~IsNaN(a) /\ ~IsNaN(b) /\ a = b

Le(a, b) == Lt(a, b) \/ Eq(a, b)

Gt(a, b) == Lt(b, a)

Ge(a, b) == Le(b, a)

\* Math.max, Math.min
MathMax(a, b) == IF IsNaN(a) \/ IsNaN(b) THEN NaN ELSE IF Lt(a, b) THEN b ELSE a

MathMin(a, b) == IF IsNaN(a) \/ IsNaN(b) THEN NaN ELSE IF Lt(b, a) THEN b ELSE a

\* ---- addition ------------------------------------------------------------
\* m * 10^r as five limbs (p = 10^r, pc = 10^(4 - r), r < 4).
ShiftUp(m, p, pc) ==
  <<(m[1] % pc) * p, (m[2] % pc) * p + m[1] \div pc, (m[3] % pc) * p + m[2] \div pc,
    (m[4] % pc) * p + m[3] \div pc, m[4] \div pc>>

\* The columns of w * 10000^q + sg * l (w five limbs, l a mantissa, q <= 4).
AddCols(w, l, sg, q) ==
  IF q = 0 THEN <<w[1] + sg * l[1], w[2] + sg * l[2], w[3] + sg * l[3],
                  w[4] + sg * l[4], w[5]>>
  ELSE IF q = 1 THEN <<sg * l[1], w[1] + sg * l[2], w[2] + sg * l[3],
                       w[3] + sg * l[4], w[4], w[5]>>
  ELSE IF q = 2 THEN <<sg * l[1], sg * l[2], w[1] + sg * l[3], w[2] + sg * l[4],
                       w[3], w[4], w[5]>>
  ELSE IF q = 3 THEN <<sg * l[1], sg * l[2], sg * l[3], w[1] + sg * l[4], w[2],
                       w[3], w[4], w[5]>>
  ELSE <<sg * l[1], sg * l[2], sg * l[3], sg * l[4], w[1], w[2], w[3], w[4], w[5]>>

\* hi + lo for finite non-zero numbers with |hi| >= |lo|, d = hi.e - lo.e: the
\* exact sum, rounded once.  A term 18 or more digits below the other does not
\* change the result.
AddOrd(hi, lo, d) ==
  IF d >= 18 THEN hi
  ELSE Norm(hi.s,
            Carry(AddCols(ShiftUp(hi.m, Pow10s[(d % 4) + 1], Pow10s[5 - (d % 4)]),
                          lo.m, hi.s * lo.s, d \div 4),
                  1, 0, <<>>),
            lo.e)

AddFin(a, b) ==
  IF a.s = 0 THEN b
  ELSE IF b.s = 0 THEN a
  ELSE IF LtMag(a, b) THEN AddOrd(b, a, b.e - a.e)
  ELSE AddOrd(a, b, a.e - b.e)

\* a + b
Add(a, b) ==
  IF IsNaN(a) \/ IsNaN(b) THEN NaN
  ELSE IF IsInf(a) THEN (IF IsInf(b) /\ a.s # b.s THEN NaN ELSE a)
  ELSE IF IsInf(b) THEN b
  ELSE AddFin(a, b)

\* a - b
Sub(a, b) == Add(a, Neg(b))

\* ---- multiplication ------------------------------------------------------
\* The columns of the product of two mantissas.
MulCols(x, y) ==
  <<x[1] * y[1],
    x[1] * y[2] + x[2] * y[1],
    x[1] * y[3] + x[2] * y[2] + x[3] * y[1],
    x[1] * y[4] + x[2] * y[3] + x[3] * y[2] + x[4] * y[1],
    x[2] * y[4] + x[3] * y[3] + x[4] * y[2],
    x[3] * y[4] + x[4] * y[3],
    x[4] * y[4]>>

\* a * b
Mul(a, b) ==
  IF IsNaN(a) \/ IsNaN(b) THEN NaN
  ELSE IF IsInf(a) \/ IsInf(b)
    THEN (IF a.s * b.s = 0 THEN NaN ELSE InfOf(a.s * b.s))
  ELSE IF a.s = 0 \/ b.s = 0 THEN Zero
  ELSE Norm(a.s * b.s, Carry(MulCols(a.m, b.m), 1, 0, <<>>), a.e + b.e)

\* ---- division ------------------------------------------------------------
\* Long division in base 10000.  Both mantissas are first scaled by the same
\* digit so that the divisor's top limb is at least 5000; the quotient limb
\* guessed from the top limbs is then at most 2 too large.
\* m * d as five limbs (d <= 9).
Scale(m, d) ==
  <<(m[1] * d) % 10000,
    (m[2] * d + (m[1] * d) \div 10000) % 10000,
    (m[3] * d + (m[2] * d + (m[1] * d) \div 10000) \div 10000) % 10000,
    (m[4] * d + (m[3] * d + (m[2] * d + (m[1] * d) \div 10000) \div 10000)
       \div 10000) % 10000,
    (m[4] * d + (m[3] * d + (m[2] * d + (m[1] * d) \div 10000) \div 10000)
       \div 10000) \div 10000>>

\* r - q * v: four limbs, and a fifth entry that is negative when q is too large
\* (and zero otherwise, as r < 10000 v).
DivTry(r, v, q) ==
  <<(r[1] - q * v[1]) % 10000,
    (r[2] - q * v[2] + (r[1] - q * v[1]) \div 10000) % 10000,
    (r[3] - q * v[3] + (r[2] - q * v[2] + (r[1] - q * v[1]) \div 10000) \div 10000)
      % 10000,
    (r[4] - q * v[4] + (r[3] - q * v[3] + (r[2] - q * v[2]
       + (r[1] - q * v[1]) \div 10000) \div 10000) \div 10000) % 10000,
    r[5] + (r[4] - q * v[4] + (r[3] - q * v[3] + (r[2] - q * v[2]
       + (r[1] - q * v[1]) \div 10000) \div 10000) \div 10000) \div 10000>>

\* The next quotient limb from the guess q, put before qs, and the n - 1 limbs
\* after it; t is r - q v.
RECURSIVE DivSteps(_, _, _, _)
RECURSIVE DivFix(_, _, _, _, _, _)
DivFix(r, v, q, t, n, qs) ==
  IF t[5] < 0 THEN DivFix(r, v, q - 1, DivTry(r, v, q - 1), n, qs)
  ELSE DivSteps(<<0, t[1], t[2], t[3], t[4]>>, v, n - 1, <<q>> \o qs)

DivLimb(r, v, q, n, qs) ==
  IF q > 9999 THEN DivFix(r, v, 9999, DivTry(r, v, 9999), n, qs)
  ELSE DivFix(r, v, q, DivTry(r, v, q), n, qs)

\* n more quotient limbs after those in qs (the least significant first); r is the
\* remainder so far, times 10000.
DivSteps(r, v, n, qs) ==
  IF n = 0 THEN qs
  ELSE DivLimb(r, v, (r[5] * 10000 + r[4]) \div v[4], n, qs)

DivScaled(a, b, d) ==
  Norm(a.s * b.s, DivSteps(Scale(a.m, d), Scale(b.m, d), 6, <<>>), a.e - b.e - 20)

DivFin(a, b) == DivScaled(a, b, 10000 \div (b.m[4] + 1))

\* a / b
Div(a, b) ==
  IF IsNaN(a) \/ IsNaN(b) THEN NaN
  ELSE IF IsInf(a) THEN (IF IsInf(b) THEN NaN ELSE InfOf(IF b.s < 0 THEN -a.s ELSE a.s))
  ELSE IF IsInf(b) THEN Zero
  ELSE IF b.s = 0 THEN (IF a.s = 0 THEN NaN ELSE InfOf(a.s))
  ELSE IF a.s = 0 THEN Zero
  ELSE DivFin(a, b)

\* ---- integers ------------------------------------------------------------
Limb5(m, i) == IF i <= 4 THEN m[i] ELSE 0

\* The integer part of |a| as limbs, for finite non-zero a with -16 < a.e < 0.
IntPart(m, q, p, pc) ==
  <<Limb5(m, q + 1) \div p + (Limb5(m, q + 2) % p) * pc,
    Limb5(m, q + 2) \div p + (Limb5(m, q + 3) % p) * pc,
    Limb5(m, q + 3) \div p + (Limb5(m, q + 4) % p) * pc,
    Limb5(m, q + 4) \div p>>

IntLimbs(a) ==
  IF a.e <= -16 THEN <<0, 0, 0, 0>>
  ELSE IntPart(a.m, (-a.e) \div 4, Pow10s[((-a.e) % 4) + 1], Pow10s[5 - ((-a.e) % 4)])

\* Whether the digits of m below digit d are all zero (0 < d < 16).
NoFraction(m, d) ==
  /\ \A i \in 1..(d \div 4) : m[i] = 0
  /\ m[d \div 4 + 1] % Pow10s[(d % 4) + 1] = 0

IsInteger(a) ==
  /\ IsFinite(a)
  /\ \/ a.s = 0
     \/ a.e >= 0
     \/ a.e > -16 /\ NoFraction(a.m, -a.e)

\* The integer a finite whole number stands for (it fits the checker's integers).
ToInt(a) ==
  IF a.s = 0 THEN 0
  ELSE a.s * (IntLimbs(a)[1] + 10000 * IntLimbs(a)[2] + 100000000 * IntLimbs(a)[3])

\* Math.floor
MathFloor(a) ==
  IF ~IsFinite(a) \/ IsInteger(a) THEN a
  ELSE IF a.s > 0 THEN Norm(1, IntLimbs(a), 0)
  ELSE Norm(-1, Carry(<<IntLimbs(a)[1] + 1, IntLimbs(a)[2], IntLimbs(a)[3],
                        IntLimbs(a)[4]>>, 1, 0, <<>>), 0)

\* Math.round: the nearest integer, halves towards +Infinity.
MathRound(a) == IF ~IsFinite(a) THEN a ELSE MathFloor(Add(a, Dec(5, -1)))

\* ---- Math.pow -------------------------------------------------------------------
\* b^n for a natural n by squaring.
RECURSIVE PowNat(_, _)
PowSquare(h) == Mul(h, h)

PowNat(b, n) ==
  IF n = 0 THEN One
  ELSE IF n % 2 = 1 THEN Mul(b, PowNat(b, n - 1))
  ELSE PowSquare(PowNat(b, n \div 2))

PowInt(b, n) == IF n >= 0 THEN PowNat(b, n) ELSE Div(One, PowNat(b, -n))

LN2 == Add(Dec(693147180, -9), Dec(559945309, -18))

LN10 == Add(Dec(230258509, -8), Dec(299404568, -17))

\* sum + zpow/n + zpow zz/(n+2) + ... for the logarithm, up to the power last or
\* until the terms no longer change the sum.
RECURSIVE AtanhSeries(_, _, _, _, _)
AtanhSeries(sum, zpow, zz, n, last) ==
  IF n > last \/ zpow.k # "fin" \/ sum.k # "fin" THEN sum
  ELSE IF zpow.s = 0 \/ (sum.s # 0 /\ zpow.e < sum.e - 18) THEN sum
  ELSE AtanhSeries(Add(sum, Div(zpow, FromInt(n))), Mul(zpow, zz), zz, n + 2, last)

\* Math.log of a finite b > 0: b = g * 2^j * 10^ex with g in [0.75, 1.5), and
\* ln g = 2 atanh(z) for z = (g - 1) / (g + 1).
LnSum(z, j, ex) ==
  Add(Add(Mul(FromInt(2), AtanhSeries(Zero, z, Mul(z, z), 1, 27)),
          Mul(FromInt(j), LN2)),
      Mul(FromInt(ex), LN10))

LnReduced(g, j, ex) == LnSum(Div(Sub(g, One), Add(g, One)), j, ex)

LnHalved(f, j, ex) == LnReduced(Div(f, FromInt(<<1, 2, 4, 8>>[j + 1])), j, ex)

LnScaled(f, ex) ==
  LnHalved(f,
           IF Lt(f, Dec(15, -1)) THEN 0 ELSE IF Lt(f, FromInt(3)) THEN 1
           ELSE IF Lt(f, FromInt(6)) THEN 2 ELSE 3,
           ex)

Ln(b) ==
  IF Ge(b, Dec(75, -2)) /\ Lt(b, Dec(15, -1)) THEN LnScaled(b, 0)
  ELSE LnScaled([b EXCEPT !.e = -15], b.e + 15)

\* sum + term r/n + term r^2/(n (n+1)) + ... up to r^last or until the terms no
\* longer change the sum.
RECURSIVE ExpSeries(_, _, _, _, _)
ExpTerm(sum, t, r, n, last) ==
  IF t.k # "fin" \/ t.s = 0 \/ (sum.s # 0 /\ t.e < sum.e - 18) THEN sum
  ELSE ExpSeries(Add(sum, t), t, r, n + 1, last)

ExpSeries(sum, term, r, n, last) ==
  IF n > last \/ sum.k # "fin" THEN sum
  ELSE ExpTerm(sum, Div(Mul(term, r), FromInt(n)), r, n, last)

\* e^y = 10^k e^r for r = y - k ln 10.
ExpScale(t, k) == Ranged(t.s, t.m, t.e + k)

ExpReduced(y, k) ==
  ExpScale(ExpSeries(One, One, Sub(y, Mul(FromInt(k), LN10)), 1, 25), k)

\* Math.exp
Exp(y) ==
  IF IsNaN(y) THEN NaN
  ELSE IF IsInf(y) THEN (IF y.s > 0 THEN PosInf ELSE Zero)
  ELSE IF Gt(y, FromInt(710)) THEN PosInf
  ELSE IF Lt(y, FromInt(-750)) THEN Zero
  ELSE ExpReduced(y, ToInt(MathRound(Div(y, LN10))))

\* Math.pow(b, x).  An integer exponent (below 10^9 in size) is raised by
\* squaring, any other through exp and log.
Pow(b, x) ==
  IF IsZero(x) THEN One
  ELSE IF IsNaN(b) \/ IsNaN(x) THEN NaN
  ELSE IF IsInf(x)
    THEN (IF Eq(Abs(b), One) THEN NaN
          ELSE IF Gt(Abs(b), One) = (x.s > 0) THEN PosInf ELSE Zero)
  ELSE IF IsInteger(x) /\ x.e < -6 THEN PowInt(b, ToInt(x))
  ELSE IF IsInf(b) THEN (IF Sign(x) > 0 THEN PosInf ELSE Zero)
  ELSE IF IsZero(b) THEN (IF Sign(x) > 0 THEN Zero ELSE PosInf)
  ELSE IF Sign(b) < 0 THEN (IF IsInteger(x) THEN Exp(Mul(x, Ln(Abs(b)))) ELSE NaN)
  ELSE Exp(Mul(x, Ln(b)))

\* ======================= InvestmentPlanner.jsx: utilities =======================
\* num(v): v when it is a finite number, otherwise 0.
num(v) == IF IsFinite(v) THEN v ELSE Zero

clamp(v, min, max) == MathMin(max, MathMax(min, v))

annualPctToMonthlyRate(p) == Div(Div(num(p), FromInt(100)), FromInt(12))

annualPctToRate(p) == Div(num(p), FromInt(100))

\* ---- compound helpers ------------------------------------------------------------
\* fvLumpSum with r and n computed: principal * Math.pow(1 + r, n).
fvLumpSumOf(principal, r, n) == Mul(principal, Pow(Add(One, r), n))

\* fvLumpSum with n = compPerYear in place of years * compPerYear.
fvLumpSumOneYear(principal, annualPct, years, compPerYear) ==
  fvLumpSumOf(principal, Div(annualPctToRate(annualPct), compPerYear), compPerYear)

fvLumpSum(principal, annualPct, years, compPerYear) ==
  fvLumpSumOf(principal, Div(annualPctToRate(annualPct), compPerYear),
              Mul(years, compPerYear))

\* The default value of fvLumpSum's compPerYear parameter.
DefaultCompPerYear == 12

\* fvSIP without its branch for r = 0.
fvSIPOfUnguarded(monthlyInvestment, r, n) ==
  Mul(Mul(monthlyInvestment, Div(Sub(Pow(Add(One, r), n), One), r)), Add(One, r))

\* fvSIP with r and n computed.
fvSIPOf(monthlyInvestment, r, n) ==
  IF Eq(r, Zero) THEN Mul(monthlyInvestment, n)
  ELSE Mul(Mul(monthlyInvestment, Div(Sub(Pow(Add(One, r), n), One), r)),
           Add(One, r))

fvSIP(monthlyInvestment, annualPct, years) ==
  fvSIPOf(monthlyInvestment, annualPctToMonthlyRate(annualPct),
          MathRound(Mul(years, FromInt(12))))

\* A schedule row.
Row(year, invested, value) == [year |-> year, invested |-> invested, value |-> value]

\* The push inside sipSchedule's loop after month m, with the new balance b.
sipPush(m, rows, monthlyInvestment, b) ==
  [balance |-> b,
   rows |-> IF m % 12 = 0
              THEN Append(rows, Row(Div(FromInt(m), FromInt(12)),
                                    Mul(monthlyInvestment, FromInt(m)), b))
              ELSE rows]

\* The body of sipSchedule's loop for month m, on st = [balance, rows].
sipMonth(m, st, monthlyInvestment, r) ==
  sipPush(m, st.rows, monthlyInvestment,
          Mul(Add(st.balance, monthlyInvestment), Add(One, r)))

\* sipSchedule's loop over the months lo..hi in order.  The range is split in two
\* halves only to keep the evaluation shallow; the months still run one by one.
RECURSIVE sipLoop(_, _, _, _, _)
sipLoop(lo, hi, st, monthlyInvestment, r) ==
  IF lo > hi \/ Len(st.rows) < 0 THEN st
  ELSE IF lo = hi THEN sipMonth(lo, st, monthlyInvestment, r)
  ELSE sipLoop((lo + hi) \div 2 + 1, hi,
               sipLoop(lo, (lo + hi) \div 2, st, monthlyInvestment, r),
               monthlyInvestment, r)

\* The final row pushed whatever n is.
sipFinalAlways(l, n, monthlyInvestment, years) ==
  Append(l.rows, Row(years, Mul(monthlyInvestment, FromInt(n)), l.balance))

\* The rows after the loop left l = [balance, rows]: the final partial-year row
\* is pushed when n is not a multiple of 12.
sipFinal(l, n, monthlyInvestment, years) ==
  IF n % 12 # 0
    THEN Append(l.rows, Row(years, Mul(monthlyInvestment, FromInt(n)), l.balance))
    ELSE l.rows

sipScheduleOf(monthlyInvestment, r, n, years) ==
  sipFinal(sipLoop(1, n, [balance |-> Zero, rows |-> <<>>], monthlyInvestment, r),
           n, monthlyInvestment, years)

\* years is finite here (every caller passes it through num).
sipSchedule(monthlyInvestment, annualPct, years) ==
  sipScheduleOf(monthlyInvestment, annualPctToMonthlyRate(annualPct),
                ToInt(MathRound(Mul(years, FromInt(12)))), years)

RECURSIVE lumpsumLoop(_, _, _, _, _)
lumpsumLoop(y, years, rows, principal, r) ==
  IF ~Le(FromInt(y), years) \/ Len(rows) < 0 THEN rows
  ELSE lumpsumLoop(y + 1, years,
                   Append(rows, Row(FromInt(y), principal,
                                    Mul(principal, Pow(Add(One, r), FromInt(y))))),
                   principal, r)

\* The rows after the loop: a row for years itself is pushed when the loop left
\* none.
lumpsumFinal(rows, principal, r, years) ==
  IF ~(\E i \in 1..Len(rows) : Eq(rows[i].year, years))
    THEN Append(rows, Row(years, principal, Mul(principal, Pow(Add(One, r), years))))
    ELSE rows

lumpsumSchedule(principal, annualPct, years) ==
  lumpsumFinal(lumpsumLoop(1, years, <<>>, principal, annualPctToRate(annualPct)),
               principal, annualPctToRate(annualPct), years)

\* ---- xirr ------------------------------------------------------------------------
\* A cash flow is [date, amount].  A date is held as its time value counted in whole
\* days, so dayDiff's division by the milliseconds of a day is already done.
dayDiff(d1, d2) == Sub(d1, d2)

\* cashflows.map((c) => num(c.amount)), from entry i on.
RECURSIVE xirrAmountsFrom(_, _, _)
xirrAmountsFrom(i, acc, cashflows) ==
  IF i > Len(cashflows) THEN acc
  ELSE xirrAmountsFrom(i + 1, Append(acc, num(cashflows[i].amount)), cashflows)

xirrAmounts(cashflows) == xirrAmountsFrom(1, <<>>, cashflows)

\* dates.map((d) => dayDiff(d, t0) / 365.0), from entry i on.
RECURSIVE xirrYearsFrom(_, _, _, _)
xirrYearsFrom(i, acc, cashflows, t0) ==
  IF i > Len(cashflows) THEN acc
  ELSE xirrYearsFrom(i + 1,
                     Append(acc, Div(dayDiff(cashflows[i].date, t0), FromInt(365))),
                     cashflows, t0)

xirrYears(cashflows) == xirrYearsFrom(1, <<>>, cashflows, cashflows[1].date)

\* amounts.reduce((s, a, i) => s + a / Math.pow(1 + r, years[i]), 0), from entry i on.
RECURSIVE npvFrom(_, _, _, _, _)
npvFrom(i, s, amounts, years, r) ==
  IF i > Len(amounts) \/ s.k = "" THEN s
  ELSE npvFrom(i + 1, Add(s, Div(amounts[i], Pow(Add(One, r), years[i]))),
               amounts, years, r)

npv(amounts, years, r) == npvFrom(1, Zero, amounts, years, r)

RECURSIVE npvDerivativeFrom(_, _, _, _, _)
npvDerivativeFrom(i, s, amounts, years, r) ==
  IF i > Len(amounts) \/ s.k = "" THEN s
  ELSE npvDerivativeFrom(
         i + 1,
         Sub(s, Div(Mul(years[i], amounts[i]),
                    Pow(Add(One, r), Add(years[i], One)))),
         amounts, years, r)

npvDerivative(amounts, years, r) == npvDerivativeFrom(1, Zero, amounts, years, r)

\* The iteration cap of the Newton-Raphson loop.
MaxIter == 100

\* The guard with the cap off by one.
xirrLoopGuardInclusive(i) == i <= MaxIter

xirrLoopGuard(i) == i < MaxIter

\* Math.abs(fprime) < 1e-10 and Math.abs(dx) < 1e-7
xirrFlat(fprime) == Lt(Abs(fprime), Dec(1, -10))

xirrSmallStep(dx) == Lt(Abs(dx), Dec(1, -7))

\* x -= dx, and the return when the step was small.
xirrStep(x, dx) ==
  [kind |-> IF xirrSmallStep(dx) THEN "return" ELSE "next", x |-> Sub(x, dx)]

\* The loop body with the update x -= f / fprime made before the break.
xirrNewtonUpdateFirst(x, f, fprime) ==
  IF xirrFlat(fprime) THEN [kind |-> "break", x |-> Sub(x, Div(f, fprime))]
  ELSE xirrStep(x, Div(f, fprime))

\* The loop body after f and fprime are computed.
xirrNewton(x, f, fprime) ==
  IF xirrFlat(fprime) THEN [kind |-> "break", x |-> x]
  ELSE xirrStep(x, Div(f, fprime))

\* The loop body at rate x: "break", "return" or "next", and the rate held
\* afterwards.
xirrBody(amounts, years, x) ==
  xirrNewton(x, npv(amounts, years, x), npvDerivative(amounts, years, x))

\* The loop state after the body gave b.
xirrAfter(st, b) ==
  [x |-> b.x,
   i |-> IF b.kind = "next" THEN st.i + 1 ELSE st.i,
   exit |-> IF b.kind = "break" THEN "flat"
            ELSE IF b.kind = "return" THEN "converged" ELSE "run",
   iters |-> st.iters + 1]

\* One turn of the for loop on st = [x, i, exit, iters]: the guard, then the body.
\* exit is "run" while the loop goes on, and then says how it was left:
\* "converged" (the return inside the loop), "flat" (the break) or "cap" (the
\* guard failed).  iters counts the passes through the body.
xirrTurn(amounts, years, st) ==
  IF st.exit # "run" THEN st
  ELSE IF ~xirrLoopGuard(st.i) THEN [st EXCEPT !.exit = "cap"]
  ELSE xirrAfter(st, xirrBody(amounts, years, st.x))

\* n turns of the loop in order (split in halves to keep the evaluation shallow).
RECURSIVE xirrTurns(_, _, _, _)
xirrTurns(n, amounts, years, st) ==
  IF n <= 0 \/ st.exit # "run" THEN st
  ELSE IF n = 1 THEN xirrTurn(amounts, years, st)
  ELSE xirrTurns(n - n \div 2, amounts, years,
                 xirrTurns(n \div 2, amounts, years, st))

\* The whole loop from the rate guess: MaxIter + 1 turns reach the failing guard.
xirrLoop(amounts, years, guess) ==
  xirrTurns(MaxIter + 2, amounts, years,
            [x |-> guess, i |-> 0, exit |-> "run", iters |-> 0])

\* xirr without the early return for an empty list.
xirrRunUnchecked(cashflows, guess) ==
  xirrLoop(xirrAmounts(cashflows), xirrYears(cashflows), guess)

\* xirr with the way it returned: exit is "empty" for the early return, else how
\* the loop was left.
xirrRun(cashflows, guess) ==
  IF Len(cashflows) = 0
    THEN [x |-> NaN, i |-> 0, exit |-> "empty", iters |-> 0]
    ELSE xirrLoop(xirrAmounts(cashflows), xirrYears(cashflows), guess)

xirr(cashflows, guess) == xirrRun(cashflows, guess).x

\* The default value of xirr's guess parameter.
DefaultGuess == Dec(1, -1)

\* ---- requiredSIP -----------------------------------------------------------------
\* The two returns, with r, n and remaining = Math.max(0, targetAmount - fvCorpus)
\* computed: remaining / n when |r| < 1e-12, else remaining / factor.
requiredSIPOf(r, n, remaining) ==
  IF Lt(Abs(r), Dec(1, -12)) THEN Div(remaining, n)
  ELSE Div(remaining,
           Mul(Div(Sub(Pow(Add(One, r), n), One), r), Add(One, r)))

requiredSIP(targetAmount, years, expectedAnnualReturnPct, existingCorpus, lumpsum) ==
  requiredSIPOf(
    annualPctToMonthlyRate(expectedAnnualReturnPct),
    MathRound(Mul(years, FromInt(12))),
    MathMax(Zero,
            Sub(targetAmount,
                fvLumpSum(Add(existingCorpus, lumpsum), expectedAnnualReturnPct,
                          years, FromInt(12)))))

\* ---- retirement corpus -----------------------------------------------------------
\* retirementCorpus_SWR's annualExpenseAtRetire, with g computed.
swrAnnualExpense(monthlyExpenseToday, g, yearsToRetire) ==
  Mul(Mul(monthlyExpenseToday, FromInt(12)), Pow(Add(One, g), yearsToRetire))

retirementCorpus_SWROf(annualExpenseAtRetire, swrPct) ==
  [annualExpenseAtRetire |-> annualExpenseAtRetire,
   corpus |-> Div(annualExpenseAtRetire, annualPctToRate(swrPct))]

retirementCorpus_SWR(monthlyExpenseToday, inflationPct, yearsToRetire, swrPct) ==
  retirementCorpus_SWROf(
    swrAnnualExpense(monthlyExpenseToday, annualPctToRate(inflationPct), yearsToRetire),
    swrPct)

\* The expense at retirement without the factor of 12 months.
finiteAnnualExpenseMonthly(monthlyExpenseToday, g, yearsToRetire) ==
  Mul(monthlyExpenseToday, Pow(Add(One, g), yearsToRetire))

\* retirementCorpus_FiniteYears's annualExpenseAtRetire, with g computed.
finiteAnnualExpense(monthlyExpenseToday, g, yearsToRetire) ==
  Mul(Mul(monthlyExpenseToday, FromInt(12)), Pow(Add(One, g), yearsToRetire))

finiteRealRate(r, g) == Sub(Div(Add(One, r), Add(One, g)), One)

\* The if and the else of retirementCorpus_FiniteYears; branch tells which one ran.
finiteCorpus(annualExpenseAtRetire, realRate, yearsInRetirement) ==
  IF Lt(Abs(realRate), Dec(1, -9))
    THEN [annualExpenseAtRetire |-> annualExpenseAtRetire,
          corpus |-> Mul(annualExpenseAtRetire, yearsInRetirement),
          realRate |-> realRate,
          branch |-> "zeroRealRate"]
    ELSE [annualExpenseAtRetire |-> annualExpenseAtRetire,
          corpus |-> Div(Mul(annualExpenseAtRetire,
                             Sub(One, Pow(Add(One, realRate), Neg(yearsInRetirement)))),
                         realRate),
          realRate |-> realRate,
          branch |-> "dividedByRealRate"]

retirementCorpus_FiniteYearsOf(monthlyExpenseToday, g, r, yearsToRetire, yearsInRetirement) ==
  finiteCorpus(finiteAnnualExpense(monthlyExpenseToday, g, yearsToRetire),
               finiteRealRate(r, g), yearsInRetirement)

retirementCorpus_FiniteYears(monthlyExpenseToday, inflationPct, yearsToRetire, yearsInRetirement, postRetReturnPct) ==
  retirementCorpus_FiniteYearsOf(monthlyExpenseToday, annualPctToRate(inflationPct),
                                 annualPctToRate(postRetReturnPct), yearsToRetire,
                                 yearsInRetirement)

\* ---- CAGR ------------------------------------------------------------------------
\* The guard with < in place of <=.
calcCAGRGuardStrict(initial, years) == Lt(initial, Zero) \/ Lt(years, Zero)

calcCAGRGuard(initial, years) == Le(initial, Zero) \/ Le(years, Zero)

\* calcCAGR with the return it left through.
calcCAGRRun(initial, final, years) ==
  IF calcCAGRGuard(initial, years)
    THEN [value |-> Zero, branch |-> "guard"]
    ELSE [value |-> Mul(Sub(Pow(Div(final, initial), Div(One, years)), One),
                        FromInt(100)),
          branch |-> "formula"]

calcCAGR(initial, final, years) == calcCAGRRun(initial, final, years).value

\* ---- age-based asset allocation --------------------------------------------------
suggestAllocationBase(rule) == IF rule = "100-age" THEN FromInt(100) ELSE FromInt(110)

\* The equity without the clamp.
suggestAllocationEquityUnclamped(base, age) == Sub(base, age)

\* The equity with age and base exchanged.
suggestAllocationEquityRising(base, age) == clamp(Sub(age, base), Zero, FromInt(100))

suggestAllocationEquity(base, age) == clamp(Sub(base, age), Zero, FromInt(100))

suggestAllocationDebt(equity) == clamp(Sub(FromInt(100), equity), Zero, FromInt(100))

suggestAllocationOf(equity) == [equity |-> equity, debt |-> suggestAllocationDebt(equity)]

suggestAllocation(age, rule) ==
  suggestAllocationOf(suggestAllocationEquity(suggestAllocationBase(rule), age))

\* The default value of suggestAllocation's rule parameter.
DefaultRule == "110-age"

\* ---- tax modelling ---------------------------------------------------------------
exemptLTCGThreshold == 100000

sec80CLimit == 150000

\* The taxable gain without the floor at 0.
ltcgTaxableUnfloored(ltcgGain) == Sub(ltcgGain, FromInt(exemptLTCGThreshold))

ltcgTaxable(ltcgGain) == MathMax(Zero, Sub(ltcgGain, FromInt(exemptLTCGThreshold)))

\* The deduction without the floor at 0.
eligible80CUnfloored(investments80C) == MathMin(FromInt(sec80CLimit), investments80C)

eligible80C(investments80C) ==
  MathMin(FromInt(sec80CLimit), MathMax(Zero, investments80C))

taxModelOf(taxable, stcgTax, eligible, grossIncome) ==
  [ltcgTaxable |-> taxable,
   ltcgTax |-> Mul(taxable, Dec(10, -2)),
   stcgTax |-> stcgTax,
   eligible80C |-> eligible,
   taxableAfter80C |-> MathMax(Zero, Sub(grossIncome, eligible)),
   grossIncome |-> grossIncome,
   totalCapitalGainsTax |-> Add(Mul(taxable, Dec(10, -2)), stcgTax)]

taxModel(ltcgGain, stcgGain, otherIncome, taxableIncomeBefore80C, investments80C) ==
  taxModelOf(ltcgTaxable(ltcgGain), Mul(MathMax(Zero, stcgGain), Dec(15, -2)),
             eligible80C(investments80C), Add(otherIncome, taxableIncomeBefore80C))

\* ---- the InvestmentPlanner component --------------------------------------------
\* Its useState cells.  What a render derives from them with useMemo is a function
\* of the cells and is defined below as such.
VARIABLES sip, ls, ret, cagr, age, rule, taxInputs, xirrFlows, goal

\* The browser's localStorage, the VisitorCounter and CurrencyProvider components
\* that keep their values in it, and how many times VisitorCounter has been mounted.
VARIABLES localStorage, visitorCounter, mounts, currencyProvider

plannerVars == <<sip, ls, ret, cagr, age, rule, taxInputs, xirrFlows, goal>>

storageVars == <<localStorage, visitorCounter, mounts, currencyProvider>>

vars == <<sip, ls, ret, cagr, age, rule, taxInputs, xirrFlows, goal,
          localStorage, visitorCounter, mounts, currencyProvider>>

\* The most rows the cash-flow table is let grow to.
MaxFlows == 2

\* new Date() ... setFullYear(getFullYear() + 1): a year from today is 365 or 366
\* days away.  Today is day 0.
YearLengths == {365, 366}

\* What the user types into the number and date inputs.
AmountValues == {FromInt(-20000), FromInt(10000), FromInt(22000)}
DateValues == {FromInt(0), FromInt(365)}
MoneyValues == {FromInt(-1000), Zero, FromInt(5000), FromInt(20000)}
RateValues == {FromInt(-6), Zero, Dec(1, -13), FromInt(8), FromInt(12)}
SipYearValues == {Zero, Dec(4, -2), Dec(96, -2), One, Dec(104, -2), Dec(15, -1),
                  FromInt(2)}
PrincipalValues == {FromInt(-5000), Zero, FromInt(100000), FromInt(1000000)}
LsRateValues == {FromInt(-1200), FromInt(-10), Zero, FromInt(10)}
LsYearValues == {Zero, Dec(5, -1), One, FromInt(2), Dec(25, -1)}
TargetValues == {Zero, FromInt(1000000), FromInt(10000000)}
GoalYearValues == {Zero, Dec(4, -2), One, FromInt(10)}
GoalRateValues == {FromInt(-1200), FromInt(-12), Zero, Dec(1, -13), FromInt(12)}
CorpusValues == {Zero, FromInt(500000), FromInt(20000000)}
LumpsumValues == {Zero, FromInt(100000)}

RetExpenseValues == {Zero, FromInt(50000)}
RetInflationValues == {FromInt(-100), Zero, FromInt(7)}
RetYearsToRetireValues == {Zero, Dec(25, -1), FromInt(10)}
RetYearsInRetirementValues == {Zero, FromInt(20)}
RetPostRetReturnValues == {FromInt(-100), Zero, FromInt(6)}
RetSwrValues == {Zero, Dec(35, -1)}
CagrInitialValues == {FromInt(-100), Zero, FromInt(100000), FromInt(250000)}
CagrFinalValues == {FromInt(-100), Zero, FromInt(100000), FromInt(250000)}
CagrYearValues == {FromInt(-1), Zero, Dec(5, -1), FromInt(2)}
\* The slider runs from 18 to 80 in steps of 1; the select offers two rules.
AgeValues == {FromInt(a) : a \in 18..80}
RuleValues == {"110-age", "100-age"}
LtcgGainValues == {FromInt(-50000), Zero, FromInt(50000), FromInt(100000),
                   FromInt(100001), FromInt(250000)}
StcgGainValues == {FromInt(-5000), Zero, FromInt(40000)}
OtherIncomeValues == {FromInt(-50000), Zero, FromInt(50000)}
Investments80CValues == {FromInt(-10000), Zero, FromInt(150000), FromInt(150001),
                         FromInt(200000)}

\* The values a render derives.
sipFV == fvSIP(sip.monthly, sip.annualReturn, sip.years)

sipData == sipSchedule(sip.monthly, sip.annualReturn, sip.years)

lsFV == fvLumpSum(ls.principal, ls.annualReturn, ls.years, FromInt(DefaultCompPerYear))

lsData == lumpsumSchedule(ls.principal, ls.annualReturn, ls.years)

xirrValue == xirr(xirrFlows, DefaultGuess)

requiredMonthly ==
  requiredSIP(goal.target, goal.years, goal.expectedReturn, goal.existingCorpus,
              goal.lumpsum)

retSWR == retirementCorpus_SWR(ret.expenseMonthly, ret.inflation, ret.yearsToRetire, ret.swr)

retFinite ==
  retirementCorpus_FiniteYears(ret.expenseMonthly, ret.inflation, ret.yearsToRetire,
                               ret.yearsInRetirement, ret.postRetReturn)

cagrPct == calcCAGR(cagr.initial, cagr.final, cagr.years)

alloc == suggestAllocation(age, rule)

taxResult ==
  taxModel(taxInputs.ltcgGain, taxInputs.stcgGain, taxInputs.otherIncome,
           taxInputs.taxableIncomeBefore80C, taxInputs.investments80C)

\* What the XIRR metric shows: the rate as a percentage when isFinite(xirrValue),
\* else the dash.
xirrMetric == IF IsFinite(xirrValue) THEN "percentage" ELSE "placeholder"

\* ---- localStorage -----------------------------------------------------------------
\* A string is the sequence of its characters.  The storage maps the keys that have
\* been set to strings; getItem of any other key is null.
NoItems == [key \in {} |-> <<>>]

hasItem(storage, key) == key \in DOMAIN storage

\* getItem(key) || fallback: null and the empty string are falsy.
getItemOr(storage, key, fallback) ==
  IF hasItem(storage, key) /\ storage[key] # <<>> THEN storage[key] ELSE fallback

setItem(storage, key, value) ==
  [k \in DOMAIN storage \cup {key} |-> IF k = key THEN value ELSE storage[k]]

DigitChars == <<"0", "1", "2", "3", "4", "5", "6", "7", "8", "9">>

IsDigit(c) == \E d \in 0..9 : DigitChars[d + 1] = c

DigitOf(c) == CHOOSE d \in 0..9 : DigitChars[d + 1] = c

RECURSIVE natToString(_)
natToString(n) ==
  IF n < 10 THEN <<DigitChars[n + 1]>>
  ELSE Append(natToString(n \div 10), DigitChars[(n % 10) + 1])

\* Number.prototype.toString of a whole number or of NaN.
toString(x) ==
  IF IsNaN(x) THEN <<"N", "a", "N">>
  ELSE IF x.s < 0 THEN <<"-">> \o natToString(-ToInt(x))
  ELSE natToString(ToInt(x))

RECURSIVE parseDigits(_, _, _)
parseDigits(s, i, acc) ==
  IF i > Len(s) \/ ~IsDigit(s[i]) THEN acc
  ELSE parseDigits(s, i + 1, 10 * acc + DigitOf(s[i]))

\* parseInt(s, 10) of a string that starts with neither a blank nor a sign: the
\* number its leading decimal digits spell, NaN when it has none.
parseInt(s) ==
  IF s = <<>> \/ ~IsDigit(s[1]) THEN NaN ELSE FromInt(parseDigits(s, 1, 0))

\* ---- VisitorCounter -----------------------------------------------------------------
\* The most mounts of VisitorCounter that are followed.
MaxMounts == 3

\* The count-up animation's number of timer ticks.
steps == 60

TrueString == <<"t", "r", "u", "e">>

storedTotalVisits(storage) ==
  parseInt(getItemOr(storage, "dplanner_total_visits", <<"0">>))

storedUniqueVisitors(storage) ==
  parseInt(getItemOr(storage, "dplanner_unique_visitors", <<"0">>))

isFirstVisit(storage) == getItemOr(storage, "dplanner_visited", <<>>) = <<>>

\* A mount that writes back the total it read.
newTotalVisitsAsStored(storage) == storedTotalVisits(storage)

newTotalVisits(storage) == Add(storedTotalVisits(storage), One)

\* A mount that counts every visit as a new visitor.
newUniqueVisitorsEveryVisit(storage) == Add(storedUniqueVisitors(storage), One)

newUniqueVisitors(storage) ==
  IF isFirstVisit(storage) THEN Add(storedUniqueVisitors(storage), One)
  ELSE storedUniqueVisitors(storage)

\* The three writes of the mount effect.
saveVisits(storage, total, unique) ==
  setItem(setItem(setItem(storage, "dplanner_total_visits", toString(total)),
                  "dplanner_unique_visitors", toString(unique)),
          "dplanner_visited", TrueString)

\* The component's useState cells, the interval timer and its step counter.
VisitorCounterState(mounted, total, unique, shownTotal, shownUnique, step, timer) ==
  [mounted |-> mounted, totalVisits |-> total, uniqueVisitors |-> unique,
   displayTotal |-> shownTotal, displayUnique |-> shownUnique,
   currentStep |-> step, timer |-> timer]

VisitorCounterUnmounted == VisitorCounterState(FALSE, Zero, Zero, Zero, Zero, 0, FALSE)

progress(currentStep) == Div(FromInt(currentStep), FromInt(steps))

\* The timer's callback, with currentStep already incremented.  newTotalVisits and
\* newUniqueVisitors of its closure are the values the effect gave to setTotalVisits
\* and setUniqueVisitors.
timerCallback(vc, currentStep) ==
  IF currentStep >= steps
  THEN VisitorCounterState(TRUE, vc.totalVisits, vc.uniqueVisitors, vc.totalVisits,
                           vc.uniqueVisitors, currentStep, FALSE)
  ELSE VisitorCounterState(TRUE, vc.totalVisits, vc.uniqueVisitors,
                           MathFloor(Mul(vc.totalVisits, progress(currentStep))),
                           MathFloor(Mul(vc.uniqueVisitors, progress(currentStep))),
                           currentStep, TRUE)

\* ---- CurrencyProvider ---------------------------------------------------------------
INR == <<"I", "N", "R">>

\* The codes of the currencies on offer, in the order of the list.
currencies ==
  <<INR, <<"U", "S", "D">>, <<"E", "U", "R">>, <<"G", "B", "P">>, <<"J", "P", "Y">>,
    <<"A", "E", "D">>>>

\* A provider that ignores what is stored.
initialCurrencyCodeDefault(storage) == INR

\* The useState initialiser.
initialCurrencyCode(storage) == getItemOr(storage, "app_currency", INR)

CurrencyProviderState(mounted, currencyCode, effectPending) ==
  [mounted |-> mounted, currencyCode |-> currencyCode, effectPending |-> effectPending]

CurrencyProviderUnmounted == CurrencyProviderState(FALSE, <<>>, FALSE)

\* The two rows the cash-flow table starts with and is reset to.
TwoFlows(yearLen, first, second) ==
  <<[date |-> FromInt(0), amount |-> first],
    [date |-> FromInt(yearLen), amount |-> second]>>

Init ==
  /\ sip = [monthly |-> FromInt(20000), annualReturn |-> FromInt(12),
            years |-> FromInt(20)]
  /\ ls = [principal |-> FromInt(1000000), annualReturn |-> FromInt(10),
           years |-> FromInt(15)]
  /\ ret = [expenseMonthly |-> FromInt(60000), inflation |-> FromInt(6),
            yearsToRetire |-> FromInt(25), yearsInRetirement |-> FromInt(30),
            postRetReturn |-> FromInt(7), swr |-> FromInt(4)]
  /\ cagr = [initial |-> FromInt(500000), final |-> FromInt(2500000),
             years |-> FromInt(5)]
  /\ age = FromInt(30)
  /\ rule = "110-age"
  /\ taxInputs = [ltcgGain |-> FromInt(120000), stcgGain |-> FromInt(20000),
                  otherIncome |-> FromInt(1200000),
                  taxableIncomeBefore80C |-> FromInt(1200000),
                  investments80C |-> FromInt(100000)]
  /\ \E yearLen \in YearLengths :
       xirrFlows = TwoFlows(yearLen, FromInt(-20000), FromInt(250000))
  /\ goal = [target |-> FromInt(10000000), years |-> FromInt(10),
             expectedReturn |-> FromInt(12), existingCorpus |-> FromInt(500000),
             lumpsum |-> Zero]
  /\ localStorage = NoItems
  /\ visitorCounter = VisitorCounterUnmounted
  /\ mounts = 0
  /\ currencyProvider = CurrencyProviderUnmounted

resetAll ==
  /\ sip' = [monthly |-> Zero, annualReturn |-> Zero, years |-> Zero]
  /\ ls' = [principal |-> Zero, annualReturn |-> Zero, years |-> Zero]
  /\ ret' = [expenseMonthly |-> Zero, inflation |-> Zero, yearsToRetire |-> Zero,
             yearsInRetirement |-> Zero, postRetReturn |-> Zero, swr |-> Zero]
  /\ cagr' = [initial |-> Zero, final |-> Zero, years |-> Zero]
  /\ age' = Zero
  /\ rule' = "110-age"
  /\ taxInputs' = [ltcgGain |-> Zero, stcgGain |-> Zero, otherIncome |-> Zero,
                   taxableIncomeBefore80C |-> Zero, investments80C |-> Zero]
  /\ \E yearLen \in YearLengths : xirrFlows' = TwoFlows(yearLen, Zero, Zero)
  /\ goal' = [target |-> Zero, years |-> Zero, expectedReturn |-> Zero,
              existingCorpus |-> Zero, lumpsum |-> Zero]
  /\ UNCHANGED storageVars

\* ---- the inputs' onChange handlers ------------------------------------------------
SetSipMonthly ==
  /\ \E v \in MoneyValues : sip' = [sip EXCEPT !.monthly = num(v)]
  /\ UNCHANGED <<ls, ret, cagr, age, rule, taxInputs, xirrFlows, goal>>
  /\ UNCHANGED storageVars

SetSipAnnualReturn ==
  /\ \E v \in RateValues : sip' = [sip EXCEPT !.annualReturn = num(v)]
  /\ UNCHANGED <<ls, ret, cagr, age, rule, taxInputs, xirrFlows, goal>>
  /\ UNCHANGED storageVars

SetSipYears ==
  /\ \E v \in SipYearValues : sip' = [sip EXCEPT !.years = num(v)]
  /\ UNCHANGED <<ls, ret, cagr, age, rule, taxInputs, xirrFlows, goal>>
  /\ UNCHANGED storageVars

SetLsPrincipal ==
  /\ \E v \in PrincipalValues : ls' = [ls EXCEPT !.principal = num(v)]
  /\ UNCHANGED <<sip, ret, cagr, age, rule, taxInputs, xirrFlows, goal>>
  /\ UNCHANGED storageVars

SetLsAnnualReturn ==
  /\ \E v \in LsRateValues : ls' = [ls EXCEPT !.annualReturn = num(v)]
  /\ UNCHANGED <<sip, ret, cagr, age, rule, taxInputs, xirrFlows, goal>>
  /\ UNCHANGED storageVars

SetLsYears ==
  /\ \E v \in LsYearValues : ls' = [ls EXCEPT !.years = num(v)]
  /\ UNCHANGED <<sip, ret, cagr, age, rule, taxInputs, xirrFlows, goal>>
  /\ UNCHANGED storageVars

SetGoalTarget ==
  /\ \E v \in TargetValues : goal' = [goal EXCEPT !.target = num(v)]
  /\ UNCHANGED <<sip, ls, ret, cagr, age, rule, taxInputs, xirrFlows>>
  /\ UNCHANGED storageVars

SetGoalYears ==
  /\ \E v \in GoalYearValues : goal' = [goal EXCEPT !.years = num(v)]
  /\ UNCHANGED <<sip, ls, ret, cagr, age, rule, taxInputs, xirrFlows>>
  /\ UNCHANGED storageVars

SetGoalExpectedReturn ==
  /\ \E v \in GoalRateValues : goal' = [goal EXCEPT !.expectedReturn = num(v)]
  /\ UNCHANGED <<sip, ls, ret, cagr, age, rule, taxInputs, xirrFlows>>
  /\ UNCHANGED storageVars

SetGoalExistingCorpus ==
  /\ \E v \in CorpusValues : goal' = [goal EXCEPT !.existingCorpus = num(v)]
  /\ UNCHANGED <<sip, ls, ret, cagr, age, rule, taxInputs, xirrFlows>>
  /\ UNCHANGED storageVars

SetGoalLumpsum ==
  /\ \E v \in LumpsumValues : goal' = [goal EXCEPT !.lumpsum = num(v)]
  /\ UNCHANGED <<sip, ls, ret, cagr, age, rule, taxInputs, xirrFlows>>
  /\ UNCHANGED storageVars

\* The cash-flow table: a row's date input, its amount input, its remove button,
\* and the add-row button.
SetFlowDate ==
  /\ \E i \in 1..Len(xirrFlows), d \in DateValues :
       xirrFlows' = [xirrFlows EXCEPT ![i].date = d]
  /\ UNCHANGED <<sip, ls, ret, cagr, age, rule, taxInputs, goal>>
  /\ UNCHANGED storageVars

SetFlowAmount ==
  /\ \E i \in 1..Len(xirrFlows), v \in AmountValues :
       xirrFlows' = [xirrFlows EXCEPT ![i].amount = num(v)]
  /\ UNCHANGED <<sip, ls, ret, cagr, age, rule, taxInputs, goal>>
  /\ UNCHANGED storageVars

RemoveFlow ==
  /\ \E i \in 1..Len(xirrFlows) :
       xirrFlows' = [j \in 1..(Len(xirrFlows) - 1) |->
                       IF j < i THEN xirrFlows[j] ELSE xirrFlows[j + 1]]
  /\ UNCHANGED <<sip, ls, ret, cagr, age, rule, taxInputs, goal>>
  /\ UNCHANGED storageVars

AddFlow ==
  /\ Len(xirrFlows) < MaxFlows
  /\ xirrFlows' = Append(xirrFlows, [date |-> FromInt(0), amount |-> Zero])
  /\ UNCHANGED <<sip, ls, ret, cagr, age, rule, taxInputs, goal>>
  /\ UNCHANGED storageVars

SetRetExpenseMonthly ==
  /\ \E v \in RetExpenseValues : ret' = [ret EXCEPT !.expenseMonthly = num(v)]
  /\ UNCHANGED <<sip, ls, cagr, age, rule, taxInputs, xirrFlows, goal>>
  /\ UNCHANGED storageVars

SetRetInflation ==
  /\ \E v \in RetInflationValues : ret' = [ret EXCEPT !.inflation = num(v)]
  /\ UNCHANGED <<sip, ls, cagr, age, rule, taxInputs, xirrFlows, goal>>
  /\ UNCHANGED storageVars

SetRetYearsToRetire ==
  /\ \E v \in RetYearsToRetireValues : ret' = [ret EXCEPT !.yearsToRetire = num(v)]
  /\ UNCHANGED <<sip, ls, cagr, age, rule, taxInputs, xirrFlows, goal>>
  /\ UNCHANGED storageVars

SetRetYearsInRetirement ==
  /\ \E v \in RetYearsInRetirementValues : ret' = [ret EXCEPT !.yearsInRetirement = num(v)]
  /\ UNCHANGED <<sip, ls, cagr, age, rule, taxInputs, xirrFlows, goal>>
  /\ UNCHANGED storageVars

SetRetPostRetReturn ==
  /\ \E v \in RetPostRetReturnValues : ret' = [ret EXCEPT !.postRetReturn = num(v)]
  /\ UNCHANGED <<sip, ls, cagr, age, rule, taxInputs, xirrFlows, goal>>
  /\ UNCHANGED storageVars

SetRetSwr ==
  /\ \E v \in RetSwrValues : ret' = [ret EXCEPT !.swr = num(v)]
  /\ UNCHANGED <<sip, ls, cagr, age, rule, taxInputs, xirrFlows, goal>>
  /\ UNCHANGED storageVars

SetCagrInitial ==
  /\ \E v \in CagrInitialValues : cagr' = [cagr EXCEPT !.initial = num(v)]
  /\ UNCHANGED <<sip, ls, ret, age, rule, taxInputs, xirrFlows, goal>>
  /\ UNCHANGED storageVars

SetCagrFinal ==
  /\ \E v \in CagrFinalValues : cagr' = [cagr EXCEPT !.final = num(v)]
  /\ UNCHANGED <<sip, ls, ret, age, rule, taxInputs, xirrFlows, goal>>
  /\ UNCHANGED storageVars

SetCagrYears ==
  /\ \E v \in CagrYearValues : cagr' = [cagr EXCEPT !.years = num(v)]
  /\ UNCHANGED <<sip, ls, ret, age, rule, taxInputs, xirrFlows, goal>>
  /\ UNCHANGED storageVars

SetTaxLtcgGain ==
  /\ \E v \in LtcgGainValues : taxInputs' = [taxInputs EXCEPT !.ltcgGain = num(v)]
  /\ UNCHANGED <<sip, ls, ret, cagr, age, rule, xirrFlows, goal>>
  /\ UNCHANGED storageVars

SetTaxStcgGain ==
  /\ \E v \in StcgGainValues : taxInputs' = [taxInputs EXCEPT !.stcgGain = num(v)]
  /\ UNCHANGED <<sip, ls, ret, cagr, age, rule, xirrFlows, goal>>
  /\ UNCHANGED storageVars

SetTaxOtherIncome ==
  /\ \E v \in OtherIncomeValues : taxInputs' = [taxInputs EXCEPT !.otherIncome = num(v)]
  /\ UNCHANGED <<sip, ls, ret, cagr, age, rule, xirrFlows, goal>>
  /\ UNCHANGED storageVars

SetTaxInvestments80C ==
  /\ \E v \in Investments80CValues : taxInputs' = [taxInputs EXCEPT !.investments80C = num(v)]
  /\ UNCHANGED <<sip, ls, ret, cagr, age, rule, xirrFlows, goal>>
  /\ UNCHANGED storageVars

\* The age slider and the rule select.
SetAge ==
  /\ \E v \in AgeValues : age' = v
  /\ UNCHANGED <<sip, ls, ret, cagr, rule, taxInputs, xirrFlows, goal>>
  /\ UNCHANGED storageVars

SetRule ==
  /\ \E v \in RuleValues : rule' = v
  /\ UNCHANGED <<sip, ls, ret, cagr, age, taxInputs, xirrFlows, goal>>
  /\ UNCHANGED storageVars

\* ---- specifications: one calculator's inputs at a time, and the reset button -----
NextSip == SetSipMonthly \/ SetSipAnnualReturn \/ SetSipYears \/ resetAll
SpecSip == Init /\ [][NextSip]_vars

NextLs == SetLsPrincipal \/ SetLsAnnualReturn \/ SetLsYears \/ resetAll
SpecLs == Init /\ [][NextLs]_vars

NextGoal ==
  \/ SetGoalTarget
  \/ SetGoalYears
  \/ SetGoalExpectedReturn
  \/ SetGoalExistingCorpus
  \/ SetGoalLumpsum
  \/ resetAll
SpecGoal == Init /\ [][NextGoal]_vars

NextXirr == SetFlowDate \/ SetFlowAmount \/ RemoveFlow \/ AddFlow \/ resetAll
SpecXirr == Init /\ [][NextXirr]_vars

NextRet ==
  \/ SetRetExpenseMonthly
  \/ SetRetInflation
  \/ SetRetYearsToRetire
  \/ SetRetYearsInRetirement
  \/ SetRetPostRetReturn
  \/ SetRetSwr
  \/ resetAll
SpecRet == Init /\ [][NextRet]_vars

NextCagr ==
  \/ SetCagrInitial
  \/ SetCagrFinal
  \/ SetCagrYears
  \/ resetAll
SpecCagr == Init /\ [][NextCagr]_vars

NextTax ==
  \/ SetTaxLtcgGain
  \/ SetTaxStcgGain
  \/ SetTaxOtherIncome
  \/ SetTaxInvestments80C
  \/ resetAll
SpecTax == Init /\ [][NextTax]_vars

NextAlloc == SetAge \/ SetRule \/ resetAll
SpecAlloc == Init /\ [][NextAlloc]_vars

\* ---- VisitorCounter's mount effect, its timer and its cleanup -------------------------
MountVisitorCounter ==
  /\ ~visitorCounter.mounted
  /\ mounts < MaxMounts
  /\ localStorage' = saveVisits(localStorage, newTotalVisits(localStorage),
                                newUniqueVisitors(localStorage))
  /\ visitorCounter' = VisitorCounterState(TRUE, newTotalVisits(localStorage),
                                           newUniqueVisitors(localStorage), Zero, Zero,
                                           0, TRUE)
  /\ mounts' = mounts + 1
  /\ UNCHANGED currencyProvider
  /\ UNCHANGED plannerVars

TimerTick ==
  /\ visitorCounter.timer
  /\ visitorCounter' = timerCallback(visitorCounter, visitorCounter.currentStep + 1)
  /\ UNCHANGED <<localStorage, mounts, currencyProvider>>
  /\ UNCHANGED plannerVars

UnmountVisitorCounter ==
  /\ visitorCounter.mounted
  /\ visitorCounter' = VisitorCounterUnmounted
  /\ UNCHANGED <<localStorage, mounts, currencyProvider>>
  /\ UNCHANGED plannerVars

\* ---- CurrencyProvider: its first render, the selector, the effect, the end of a session
MountCurrencyProvider ==
  /\ ~currencyProvider.mounted
  /\ currencyProvider' =
       CurrencyProviderState(TRUE, initialCurrencyCode(localStorage), TRUE)
  /\ UNCHANGED <<localStorage, visitorCounter, mounts>>
  /\ UNCHANGED plannerVars

\* The selector's onValueChange.  Effects of the render before it have run; the
\* effect runs again only when currencyCode has changed.
setCurrencyCode ==
  /\ currencyProvider.mounted
  /\ ~currencyProvider.effectPending
  /\ \E i \in 1..Len(currencies) :
       currencyProvider' =
         CurrencyProviderState(TRUE, currencies[i],
                               currencies[i] # currencyProvider.currencyCode)
  /\ UNCHANGED <<localStorage, visitorCounter, mounts>>
  /\ UNCHANGED plannerVars

currencyEffect ==
  /\ currencyProvider.mounted
  /\ currencyProvider.effectPending
  /\ localStorage' = setItem(localStorage, "app_currency", currencyProvider.currencyCode)
  /\ currencyProvider' = [currencyProvider EXCEPT !.effectPending = FALSE]
  /\ UNCHANGED <<visitorCounter, mounts>>
  /\ UNCHANGED plannerVars

UnmountCurrencyProvider ==
  /\ currencyProvider.mounted
  /\ currencyProvider' = CurrencyProviderUnmounted
  /\ UNCHANGED <<localStorage, visitorCounter, mounts>>
  /\ UNCHANGED plannerVars

NextStorage ==
  \/ MountVisitorCounter
  \/ TimerTick
  \/ UnmountVisitorCounter
  \/ MountCurrencyProvider
  \/ setCurrencyCode
  \/ currencyEffect
  \/ UnmountCurrencyProvider
SpecStorage == Init /\ [][NextStorage]_vars

\* ======================= the claims ==============================================
\* Initial guesses other than the default.
GuessValues == {DefaultGuess, Dec(-5, -1), FromInt(3)}

\* A run that has returned after at most 100 passes through the loop body.
ReturnedWithinCap(run) ==
  /\ run.exit \in {"empty", "converged", "flat", "cap"}
  /\ run.iters <= 100

\* C1: xirr terminates for every input: whatever the cash flows and the initial
\* guess are, the Newton-Raphson loop makes at most 100 passes and then returns.
C1_IterationCap ==
  \A g \in GuessValues : ReturnedWithinCap(xirrRun(xirrFlows, g))

HitCap(run) == run.exit = "cap" /\ run.iters = 100 /\ IsNaN(run.x)

\* A run that used all 100 passes without meeting the tolerance, and returned.
C1_Witness == Len(xirrFlows) = 2 /\ HitCap(xirrRun(xirrFlows, DefaultGuess))

\* The early return: not-a-number, no pass through the loop.
EmptyOutcome(run, guess) ==
  /\ IsNaN(run.x)
  /\ run.iters = 0
  /\ ~Eq(run.x, Zero)
  /\ ~Eq(run.x, guess)

\* C2: for an empty cash-flow list xirr returns not-a-number at once, without any
\* Newton-Raphson pass, and neither zero nor the initial guess.
C2_EmptyIsNaN ==
  Len(xirrFlows) = 0 =>
    \A g \in GuessValues : EmptyOutcome(xirrRun(xirrFlows, g), g)

\* Every row of the table has been removed and the render shows not-a-number.
C2_Witness == Len(xirrFlows) = 0 /\ IsNaN(xirrValue)

\* A list whose run met the tolerance, to compare outcomes with.
ReferenceFlows == {TwoFlows(365, FromInt(-20000), FromInt(22000))}

\* The caller gets a number and nothing else: a run that stopped without meeting
\* the tolerance can be told from the converged run ref only by that number.
ToldApart(run, ref) ==
  (run.exit \in {"flat", "cap"} /\ ref.exit = "converged") => run.x # ref.x

\* C3: whenever xirr stops without meeting the 1e-7 step tolerance (at the cap, or
\* because the derivative is below 1e-10), what it returns is flagged and can be
\* told from the outcome of a run that met the tolerance.
C3_NonConvergedFlagged ==
  \A r \in ReferenceFlows :
    ToldApart(xirrRun(xirrFlows, DefaultGuess), xirrRun(r, DefaultGuess))

\* |a - b| <= tol for finite a and b.
Within(a, b, tol) == IsFinite(a) /\ IsFinite(b) /\ Le(Abs(Sub(a, b)), tol)

\* One outflow, then one inflow exactly 365 days later.
IsOneYearPair(flows) ==
  /\ Len(flows) = 2
  /\ Lt(flows[1].amount, Zero)
  /\ Gt(flows[2].amount, Zero)
  /\ Eq(Sub(flows[2].date, flows[1].date), FromInt(365))

ConvergedTo(run, rate) == run.exit = "converged" /\ Within(run.x, rate, Dec(1, -4))

\* C4: for an outflow -P followed by an inflow F 365 days later (P, F > 0), xirr
\* with the default guess converges to F / P - 1 within 0.0001.
C4_OneYearRate ==
  IsOneYearPair(xirrFlows) =>
    ConvergedTo(xirrRun(xirrFlows, DefaultGuess),
                Sub(Div(xirrFlows[2].amount, Neg(xirrFlows[1].amount)), One))

\* A third entry for the table, and rates to evaluate the NPV function at.
ExtraFlows == {[date |-> FromInt(730), amount |-> FromInt(22000)],
               [date |-> FromInt(200), amount |-> FromInt(-5000)]}

RateSamples == {DefaultGuess, Dec(-5, -1), FromInt(2)}

\* The same number up to tol: both not-a-number, or equal, or within tol of the
\* larger magnitude (of 1 for small numbers).
SameUpTo(a, b, tol) ==
  \/ IsNaN(a) /\ IsNaN(b)
  \/ Eq(a, b)
  \/ Within(a, b, Mul(tol, MathMax(One, MathMax(Abs(a), Abs(b)))))

\* The rounding of a sum of three terms, and ten times the solver's step
\* tolerance of 1e-7.
SumRounding == Dec(1, -9)
RateTolerance == Dec(1, -6)

\* Each offset is (date - first date) / 365, and so the first one is 0.
OffsetsFromFirst(flows, years) ==
  /\ Len(years) = Len(flows)
  /\ Eq(years[1], Zero)
  /\ \A i \in 1..Len(flows) :
       Eq(years[i], Div(Sub(flows[i].date, flows[1].date), FromInt(365)))

SameNpv(flows, swapped, r) ==
  SameUpTo(npv(xirrAmounts(flows), xirrYears(flows), r),
           npv(xirrAmounts(swapped), xirrYears(swapped), r), SumRounding)

\* swapped is flows with the entries after the first in another order.
TailOrderIrrelevant(flows, swapped) ==
  /\ OffsetsFromFirst(flows, xirrYears(flows))
  /\ OffsetsFromFirst(swapped, xirrYears(swapped))
  /\ \A r \in RateSamples : SameNpv(flows, swapped, r)
  /\ SameUpTo(xirr(flows, DefaultGuess), xirr(swapped, DefaultGuess),
              RateTolerance)

\* C5: each entry's offset is (its date - the first entry's date) / 365, the first
\* entry's offset is 0, and the order of the entries after the first changes
\* neither the NPV function (up to the rounding of the sum) nor the returned rate.
C5_TailOrderIrrelevant ==
  Len(xirrFlows) = 2 =>
    \A e \in ExtraFlows :
      TailOrderIrrelevant(<<xirrFlows[1], xirrFlows[2], e>>,
                          <<xirrFlows[1], e, xirrFlows[2]>>)

\* The expense both calculators are to report: monthly * 12 * (1 + inflation)^years.
ExpenseAtRetire(r) ==
  Mul(Mul(r.expenseMonthly, FromInt(12)),
      Pow(Add(One, Div(r.inflation, FromInt(100))), r.yearsToRetire))

\* C11: retirementCorpus_SWR and retirementCorpus_FiniteYears return the same
\* annualExpenseAtRetire = monthlyExpenseToday * 12 * (1 + inflation)^yearsToRetire
\* for the same expense, inflation and years to retirement, whatever the swr, the
\* post-retirement return and the years in retirement are.
C11_SameAnnualExpense ==
  /\ retSWR.annualExpenseAtRetire = retFinite.annualExpenseAtRetire
  /\ retFinite.annualExpenseAtRetire = ExpenseAtRetire(ret)

\* A grown, positive expense, with the fields only one calculator reads changed.
C11_Witness ==
  /\ Gt(retSWR.annualExpenseAtRetire, Mul(ret.expenseMonthly, FromInt(12)))
  /\ ret.yearsToRetire = Dec(25, -1)
  /\ IsZero(ret.swr)
  /\ ret.postRetReturn = FromInt(6)
  /\ IsZero(ret.yearsInRetirement)

\* C12: with postRetReturnPct equal to inflationPct, whatever that rate is,
\* retirementCorpus_FiniteYears takes the zero-real-rate branch, does not divide
\* by realRate, and returns the finite corpus annualExpenseAtRetire *
\* yearsInRetirement.
C12_ZeroRealRateBranch ==
  ret.postRetReturn = ret.inflation =>
    /\ retFinite.branch = "zeroRealRate"
    /\ IsFinite(retFinite.corpus)
    /\ retFinite.corpus = Mul(retFinite.annualExpenseAtRetire, ret.yearsInRetirement)

NonNegative(a) == IsFinite(a) /\ Ge(a, Zero)

NonNegativeFields(r) ==
  /\ NonNegative(r.expenseMonthly)
  /\ NonNegative(r.inflation)
  /\ NonNegative(r.yearsToRetire)
  /\ NonNegative(r.yearsInRetirement)
  /\ NonNegative(r.postRetReturn)
  /\ NonNegative(r.swr)

\* C13: for every input record with non-negative fields, swrPct = 0 and the
\* all-zero record of resetAll included, retirementCorpus_SWR and
\* retirementCorpus_FiniteYears return a finite, non-negative corpus: a zero
\* denominator is recovered from, never propagated.
C13_CorpusFiniteNonNegative ==
  NonNegativeFields(ret) => NonNegative(retSWR.corpus) /\ NonNegative(retFinite.corpus)

\* Values of final to call calcCAGR with, besides the one the form holds.
FinalSamples == {FromInt(-100), Zero, FromInt(2500000), PosInf, NaN}

GuardedZero(run) == run.branch = "guard" /\ run.value = Zero /\ IsFinite(run.value)

\* C14: whenever initial <= 0 or years <= 0, calcCAGR leaves through its guard and
\* returns the fallback 0, never NaN or a non-finite value, whatever final is.
C14_GuardReturnsZero ==
  (Le(cagr.initial, Zero) \/ Le(cagr.years, Zero)) =>
    \A f \in FinalSamples \cup {cagr.final} :
      GuardedZero(calcCAGRRun(cagr.initial, f, cagr.years))

\* The boundary of the guard: initial is exactly 0, with years and final positive.
C14_Witness ==
  /\ IsZero(cagr.initial)
  /\ Gt(cagr.years, Zero)
  /\ Gt(cagr.final, Zero)
  /\ IsZero(cagrPct)

\* Inputs the guard lets through, to compare an invalid input's outcome with.
ValidInputs ==
  {[initial |-> FromInt(500000), final |-> FromInt(500000), years |-> FromInt(5)],
   [initial |-> FromInt(500000), final |-> FromInt(2500000), years |-> FromInt(5)]}

IsInvalid(c) == Le(c.initial, Zero) \/ Le(c.years, Zero)

\* C15: an invalid input to calcCAGR (initial <= 0 or years <= 0) is surfaced as an
\* outcome the caller can tell from the result of every valid input; it is not the
\* value that a valid input such as final = initial produces.
C15_InvalidDistinguishable ==
  IsInvalid(cagr) =>
    \A v \in ValidInputs : cagrPct # calcCAGR(v.initial, v.final, v.years)

\* Ages to call suggestAllocation with besides the slider's: negative, fractional,
\* and beyond 120.
AgeSamples == {FromInt(-40), Dec(-5, -1), Zero, Dec(1725, -2), Dec(301, -1), FromInt(105),
               FromInt(110), FromInt(120), FromInt(500)}

InPercentRange(a) == IsFinite(a) /\ Ge(a, Zero) /\ Le(a, FromInt(100))

SplitsHundred(a) ==
  /\ InPercentRange(a.equity)
  /\ InPercentRange(a.debt)
  /\ Add(a.equity, a.debt) = FromInt(100)

\* C16: for every age, inside or outside [0, 120] and negative ages included, and
\* for either rule, suggestAllocation returns an equity and a debt that both lie in
\* [0, 100] and add up to 100.
C16_AllocationSplitsHundred ==
  \A a \in AgeSamples \cup {age}, r \in RuleValues : SplitsHundred(suggestAllocation(a, r))

\* After resetAll the age is 0 and 110 - 0 is clamped to 100.
C16_Witness ==
  /\ IsZero(age)
  /\ rule = "110-age"
  /\ alloc.equity = FromInt(100)
  /\ IsZero(alloc.debt)

EquityFalls(lo, hi) == Ge(lo.equity, hi.equity) /\ Le(lo.debt, hi.debt)

\* C17: for a fixed rule the equity of suggestAllocation does not increase with
\* age, and the debt does not decrease: age1 <= age2 implies equity(age1) >=
\* equity(age2) and debt(age1) <= debt(age2).
C17_EquityNonIncreasing ==
  \A r \in RuleValues :
    \A a1, a2 \in AgeSamples \cup {age} :
      Le(a1, a2) => EquityFalls(suggestAllocation(a1, r), suggestAllocation(a2, r))

\* The slider has moved above 18 and the equity shown is below that at 18.
C17_Witness ==
  /\ rule = "100-age"
  /\ Gt(age, FromInt(18))
  /\ Lt(alloc.equity, suggestAllocation(FromInt(18), rule).equity)
  /\ Gt(alloc.debt, suggestAllocation(FromInt(18), rule).debt)

\* Rule values to call suggestAllocation with: the two of the select and one it
\* does not offer.
RuleSamples == {"110-age", "100-age", "120-age"}

SpecifiedEquity(a, r) ==
  clamp(Sub(IF r = "110-age" THEN FromInt(110) ELSE FromInt(100), a), Zero, FromInt(100))

SpecifiedAllocation(a, r) ==
  [equity |-> SpecifiedEquity(a, r), debt |-> Sub(FromInt(100), SpecifiedEquity(a, r))]

\* C18: suggestAllocation uses base 110 exactly when rule is "110-age" and base 100
\* for every other rule value, an unrecognised one included; equity is
\* clamp(base - age, 0, 100) and debt is 100 - equity.
C18_BaseByRule ==
  \A r \in RuleSamples \cup {rule} :
    suggestAllocation(age, r) = SpecifiedAllocation(age, r)

\* Gains to call taxModel with besides the one the form holds.
GainSamples == {FromInt(-1000000), Dec(9999999, -2), Dec(10000001, -2), FromInt(100000),
                FromInt(100000000)}

LtcgRule(g, t) ==
  /\ t.ltcgTaxable = MathMax(Zero, Sub(g, FromInt(100000)))
  /\ t.ltcgTax = Mul(t.ltcgTaxable, Dec(1, -1))
  /\ Le(g, FromInt(100000)) => t.ltcgTax = Zero
  /\ Gt(g, FromInt(100000)) => Gt(t.ltcgTax, Zero)

\* C19: taxModel yields ltcgTaxable = max(0, ltcgGain - 100000) and ltcgTax = 10% of
\* it, so ltcgTax is 0 for every gain up to 100000, negative gains included, and
\* positive for every gain above 100000.
C19_LtcgTax ==
  \A g \in GainSamples \cup {taxInputs.ltcgGain} :
    LtcgRule(g, taxModel(g, taxInputs.stcgGain, taxInputs.otherIncome,
                         taxInputs.taxableIncomeBefore80C, taxInputs.investments80C))

\* A gain one above the threshold is taxed, on that one.
C19_Witness ==
  /\ taxInputs.ltcgGain = FromInt(100001)
  /\ taxResult.ltcgTaxable = One
  /\ Gt(taxResult.ltcgTax, Zero)

\* Investments to call taxModel with besides the one the form holds.
InvestmentSamples == {FromInt(-1), Dec(5, -1), Dec(14999999, -2), FromInt(100000000)}

EligibleRule(v, e) ==
  /\ e = MathMin(FromInt(150000), MathMax(Zero, v))
  /\ Ge(e, Zero) /\ Le(e, FromInt(150000))
  /\ (Ge(v, Zero) /\ Le(v, FromInt(150000))) => e = v
  /\ Gt(v, FromInt(150000)) => e = FromInt(150000)
  /\ Lt(v, Zero) => e = Zero

\* C20: eligible80C is min(150000, max(0, investments80C)): it lies in [0, 150000],
\* equals investments80C when that is within [0, 150000], is 150000 for every larger
\* investment and 0 for every negative one.
C20_Eligible80C ==
  \A v \in InvestmentSamples \cup {taxInputs.investments80C} :
    EligibleRule(v, taxModel(taxInputs.ltcgGain, taxInputs.stcgGain,
                             taxInputs.otherIncome, taxInputs.taxableIncomeBefore80C,
                             v).eligible80C)

\* An investment above the cap is cut to it.
C20_Witness ==
  /\ taxInputs.investments80C = FromInt(200000)
  /\ taxResult.eligible80C = FromInt(150000)

\* The future value of the existing corpus and the lump sum, as requiredSIP has it.
GoalCorpusFV ==
  fvLumpSum(Add(goal.existingCorpus, goal.lumpsum), goal.expectedReturn, goal.years,
            FromInt(12))

\* C6: requiredSIP never returns a negative value, and returns exactly zero whenever
\* the future value of existingCorpus + lumpsum meets or exceeds targetAmount, for
\* every target, horizon and rate: a zero rate, a negative rate and a horizon that
\* rounds to 0 months included.
C6_RequiredNonNegative ==
  /\ ~Lt(requiredMonthly, Zero)
  /\ Ge(GoalCorpusFV, goal.target) => requiredMonthly = Zero

GoalMonths == MathRound(Mul(goal.years, FromInt(12)))

\* |a - b| is at most a millionth of |b|.
CloseTo(a, b) == Within(a, b, Mul(Dec(1, -6), Abs(b)))

\* C7: when targetAmount exceeds the future value of the existing corpus and the
\* horizon rounds to n >= 1 months, fvSIP(requiredSIP(...), rate, years) +
\* fvLumpSum(existingCorpus + lumpsum, rate, years, 12) gives targetAmount back
\* within rounding, for zero and non-zero rates alike.
C7_RoundTrip ==
  (Gt(goal.target, GoalCorpusFV) /\ Ge(GoalMonths, One)) =>
    CloseTo(Add(fvSIP(requiredMonthly, goal.expectedReturn, goal.years), GoalCorpusFV),
            goal.target)

\* C8: with a zero annual rate fvSIP returns monthlyInvestment * round(years * 12)
\* through its own branch and never divides by the zero rate; zero and negative
\* contributions go through that branch arithmetically and are not rejected.
C8_ZeroRateLinear ==
  IsZero(sip.annualReturn) =>
    /\ sipFV = Mul(sip.monthly, MathRound(Mul(sip.years, FromInt(12))))
    /\ IsFinite(sipFV)

\* A negative contribution over 1.04 years, which round to 12 months.
C8_Witness ==
  /\ IsZero(sip.annualReturn)
  /\ sip.monthly = FromInt(-1000)
  /\ sip.years = Dec(104, -2)
  /\ sipFV = FromInt(-12000)

\* Compounding frequencies: yearly, half-yearly, quarterly, monthly, daily.
CompValues == {FromInt(1), FromInt(2), FromInt(4), FromInt(12), FromInt(365)}

\* C9: fvLumpSum(principal, rate, 0) returns principal unchanged for every rate,
\* positive, zero or negative, and every compounding frequency.
C9_ZeroYearsIdentity ==
  IsZero(ls.years) =>
    \A c \in CompValues :
      fvLumpSum(ls.principal, ls.annualReturn, ls.years, c) = ls.principal

\* No time has passed on a principal with a rate that is not zero.
C9_Witness ==
  /\ IsZero(ls.years)
  /\ ~IsZero(ls.annualReturn)
  /\ ~IsZero(ls.principal)
  /\ lsFV = ls.principal

YearsIncrease(rows) ==
  \A i \in 1..(Len(rows) - 1) : Lt(rows[i].year, rows[i + 1].year)

\* The rows of a schedule asked for a positive duration.
ScheduleEndsAt(rows, years) ==
  Gt(years, Zero) =>
    /\ Len(rows) > 0
    /\ YearsIncrease(rows)
    /\ rows[Len(rows)].year = years

\* C10: in sipSchedule and in lumpsumSchedule the rows are strictly increasing in
\* year and the last row's year is the requested duration, for every positive
\* duration, those that are not a whole number of years or of months included.
C10_ScheduleEndsAtDuration ==
  /\ ScheduleEndsAt(sipData, sip.years)
  /\ ScheduleEndsAt(lsData, ls.years)

\* C21: every monetary field of taxModel's result (ltcgTaxable, ltcgTax, stcgTax,
\* eligible80C, taxableAfter80C, grossIncome, totalCapitalGainsTax) is non-negative
\* for every input record, negative gains, incomes and investments included.
C21_TaxOutputsNonNegative ==
  /\ NonNegative(taxResult.ltcgTaxable)
  /\ NonNegative(taxResult.ltcgTax)
  /\ NonNegative(taxResult.stcgTax)
  /\ NonNegative(taxResult.eligible80C)
  /\ NonNegative(taxResult.taxableAfter80C)
  /\ NonNegative(taxResult.grossIncome)
  /\ NonNegative(taxResult.totalCapitalGainsTax)

\* C22: after any sequence of add-row, remove-row, edit-row and reset operations on
\* the cash-flow list, the XIRR metric shows the neutral placeholder, not a
\* percentage, whenever the solver's result is invalid (every row removed, say) or
\* the solver did not converge.
C22_PlaceholderWhenUnreliable ==
  xirrRun(xirrFlows, DefaultGuess).exit # "converged" => xirrMetric = "placeholder"

\* A run left through the break hands back a rate at which the derivative is still
\* below 1e-10 in magnitude (no update followed the test), and the initial guess g
\* itself when the break came in the first pass.
FlatHeld(run, g, amounts, years) ==
  run.exit = "flat" =>
    /\ xirrFlat(npvDerivative(amounts, years, run.x))
    /\ run.iters = 1 => run.x = g

AllZero(amounts) == \A i \in 1..Len(amounts) : IsZero(amounts[i])

\* A single entry, or amounts that are all zero: the derivative is 0 from the start.
FlatAtOnce(run, g, amounts) ==
  (Len(amounts) = 1 \/ AllZero(amounts)) =>
    run.exit = "flat" /\ run.iters = 1 /\ run.x = g

\* C25: when the derivative's magnitude at the current rate is below 1e-10, xirr's
\* loop stops before the update: that derivative is not divided by, and the rate
\* held at that point is returned, the initial guess itself when this happens in
\* the first iteration, as for a single-entry list or all-zero amounts.
C25_FlatStopsBeforeUpdate ==
  Len(xirrFlows) > 0 =>
    \A g \in GuessValues :
      /\ FlatHeld(xirrRun(xirrFlows, g), g, xirrAmounts(xirrFlows), xirrYears(xirrFlows))
      /\ FlatAtOnce(xirrRun(xirrFlows, g), g, xirrAmounts(xirrFlows))

\* The break came after several updates: the rate handed back is finite and is not
\* the guess.
C25_Witness ==
  /\ Len(xirrFlows) = 2
  /\ xirrRun(xirrFlows, DefaultGuess).exit = "flat"
  /\ xirrRun(xirrFlows, DefaultGuess).iters > 1
  /\ IsFinite(xirrValue)
  /\ xirrValue # DefaultGuess

\* round(years * 12) for the SIP form.
SipMonths == ToInt(MathRound(Mul(sip.years, FromInt(12))))

\* Row k is the row of month 12 k: year = 12 k / 12, invested = monthly * 12 k.
YearRows(rows, n, monthly) ==
  \A k \in 1..(n \div 12) :
    /\ rows[k].year = Div(FromInt(12 * k), FromInt(12))
    /\ rows[k].invested = Mul(monthly, FromInt(12 * k))

\* One more row, with invested = monthly * n, exactly when 12 does not divide n.
FinalRow(rows, n, monthly) ==
  IF n % 12 # 0
    THEN /\ Len(rows) = n \div 12 + 1
         /\ rows[Len(rows)].invested = Mul(monthly, FromInt(n))
    ELSE Len(rows) = n \div 12

InvestedIsPrincipal(rows, principal) ==
  \A i \in 1..Len(rows) : rows[i].invested = principal

\* lumpsumSchedule over the values of the lump-sum form.
LumpsumRowsCarryPrincipal ==
  \A p \in PrincipalValues, r \in {FromInt(-10), FromInt(10)}, y \in LsYearValues :
    /\ Len(lumpsumSchedule(p, r, y)) > 0
    /\ InvestedIsPrincipal(lumpsumSchedule(p, r, y), p)

\* C26: with n = round(years * 12), sipSchedule emits exactly one row for each
\* month m in 1..n that is a multiple of 12, with year = m / 12 and invested =
\* monthlyInvestment * m, and one final row with invested = monthlyInvestment * n
\* if and only if n is not a multiple of 12; every lumpsumSchedule row carries
\* invested = principal.
C26_ScheduleRows ==
  /\ YearRows(sipData, SipMonths, sip.monthly)
  /\ FinalRow(sipData, SipMonths, sip.monthly)
  /\ InvestedIsPrincipal(lsData, ls.principal)
  /\ LumpsumRowsCarryPrincipal

\* 1.5 years: the row of month 12 and the final row of month 18.
C26_Witness ==
  /\ sip.years = Dec(15, -1)
  /\ ~IsZero(sip.monthly)
  /\ Len(sipData) = 2
  /\ sipData[1].year = One
  /\ sipData[2].invested = Mul(sip.monthly, FromInt(18))

\* The value in the last row of a schedule.
LastValue(rows) == rows[Len(rows)].value

\* C28: the value in the last row of sipSchedule(c, rate, years) equals, up to
\* rounding, fvSIP(c, rate, years) for every contribution, every rate (zero,
\* positive or negative) and every horizon with round(years * 12) >= 1: the
\* month-by-month recurrence and the closed form agree.
C28_SipScheduleEndsAtFV ==
  SipMonths >= 1 =>
    /\ Len(sipData) > 0
    /\ SameUpTo(LastValue(sipData), sipFV, Dec(1, -9))

\* C29: the value in the last row of lumpsumSchedule(principal, rate, years) equals
\* fvLumpSum(principal, rate, years), the future value the lump-sum metric shows
\* for the same parameters: the chart's end point and the headline figure agree.
C29_LumpsumScheduleEndsAtFV ==
  /\ Len(lsData) > 0
  /\ SameUpTo(LastValue(lsData), lsFV, Dec(1, -9))

\* C30: for every non-empty cash-flow list with valid dates and finite amounts xirr
\* returns a finite number: not-a-number is returned for the empty list only, and an
\* iterate that reaches or passes the rate -1 does not make the result non-finite.
C30_FiniteForNonEmpty ==
  Len(xirrFlows) > 0 => IsFinite(xirrValue)


\* The visit counts the storage holds.
StoredTotal == storedTotalVisits(localStorage)

StoredUnique == storedUniqueVisitors(localStorage)

\* The count-up animation has run its 60 ticks and stopped its timer.
AnimationEnded ==
  /\ visitorCounter.mounted
  /\ ~visitorCounter.timer
  /\ visitorCounter.currentStep >= steps

\* C23: every mount of VisitorCounter adds exactly 1 to the total stored under
\* dplanner_total_visits, so that after N mounts from an empty storage the stored
\* total is N; and once the count-up animation has ended the displayed total is
\* that stored total.
C23_TotalCountsMounts ==
  /\ Eq(StoredTotal, FromInt(mounts))
  /\ mounts = 0 \/ localStorage["dplanner_total_visits"] = toString(FromInt(mounts))
  /\ AnimationEnded => Eq(visitorCounter.displayTotal, StoredTotal)

\* The animation of the second mount, or of a later one, has ended.
C23_Witness ==
  /\ mounts >= 2
  /\ AnimationEnded
  /\ Eq(visitorCounter.displayTotal, FromInt(mounts))

\* A step that mounts VisitorCounter.
VisitorMounts == ~visitorCounter.mounted /\ visitorCounter'.mounted

\* The stored unique count changes only in a mount that finds no dplanner_visited
\* flag, and then by 1.
UniqueChangesOnFirstVisit ==
  storedUniqueVisitors(localStorage') # StoredUnique =>
    /\ VisitorMounts
    /\ ~hasItem(localStorage, "dplanner_visited")
    /\ Eq(storedUniqueVisitors(localStorage'), Add(StoredUnique, One))

\* A mount leaves the flag set.
MountSetsFlag ==
  VisitorMounts =>
    hasItem(localStorage', "dplanner_visited") /\ localStorage'["dplanner_visited"] = TrueString

\* From an empty storage the unique count has gone up at most once and is not above
\* the total.
UniqueAtMostOnce == Le(StoredUnique, One) /\ Le(StoredUnique, StoredTotal)

\* C27: the stored unique-visitor count is incremented only by a mount that finds
\* the dplanner_visited flag absent, and every mount sets the flag; over any
\* sequence of mounts the unique count goes up at most once and, from an empty
\* storage, never exceeds the total-visit count.
C27_UniqueOnlyOnFirstVisit ==
  /\ []UniqueAtMostOnce
  /\ [][UniqueChangesOnFirstVisit /\ MountSetsFlag]_vars

\* A second mount has found the flag and left the unique count at 1.
C27_Witness ==
  /\ mounts >= 2
  /\ Eq(StoredUnique, One)
  /\ Eq(StoredTotal, FromInt(2))
  /\ visitorCounter.mounted
  /\ Eq(visitorCounter.uniqueVisitors, One)

\* A step that creates a CurrencyProvider.
ProviderMounts == ~currencyProvider.mounted /\ currencyProvider'.mounted

\* Once the effect has run, the storage holds the provider's currencyCode.
CurrencyStored ==
  currencyProvider.mounted /\ ~currencyProvider.effectPending =>
    /\ hasItem(localStorage, "app_currency")
    /\ localStorage["app_currency"] = currencyProvider.currencyCode

\* A new provider starts with the stored code, and with INR when none is stored.
StartsWithStored ==
  ProviderMounts =>
    currencyProvider'.currencyCode =
      IF hasItem(localStorage, "app_currency") THEN localStorage["app_currency"] ELSE INR

\* C24: the selected currency persists across sessions: after setCurrencyCode(c)
\* and the effect that follows it the storage's app_currency is c, and a newly
\* created CurrencyProvider starts with currencyCode c; with no stored value it
\* starts with INR.
C24_CurrencyPersists == []CurrencyStored /\ [][StartsWithStored]_vars

\* A provider just created, before its first effect, with a code other than INR:
\* the one an earlier session stored.
C24_Witness ==
  /\ currencyProvider.mounted
  /\ currencyProvider.effectPending
  /\ currencyProvider.currencyCode = currencies[2]
  /\ hasItem(localStorage, "app_currency")
  /\ localStorage["app_currency"] = currencies[2]

=============================================================================
